---- MODULE Spec2Model ----
(***************************************************************************)
(* Session layer of the CodeGame JavaScript server (protocol v0.8):        *)
(* GameServer (src/src/server.ts), Game (game.ts), Player (player.ts) and  *)
(* the heartbeat-managed Socket with its GameSocket, SpectatorSocket and   *)
(* DebugSocket subclasses.                                                 *)
(*                                                                         *)
(* Node.js runs every handler to completion, so each handler is one        *)
(* action.  Identifiers produced by uuid.v4() are modelled as the index of *)
(* the object in the sequence of objects of its class: they are fresh and  *)
(* never reused.  Date.now() is the variable now, counted in minutes, so   *)
(* that MAX_INACTIVE_TIME_MINUTES * 60 * 1000 ms is                        *)
(* MAX_INACTIVE_TIME_MINUTES units of now.                                 *)
(***************************************************************************)
EXTENDS Integers, FiniteSets, Sequences, TLC

\* ------------------------------------------------------------------------
\* Bounds of the exploration
\* ------------------------------------------------------------------------
MaxGameIds == 3      \* games constructed during a run
MaxPlayerIds == 3    \* players constructed during a run
MaxSocketIds == 2    \* sockets constructed during a run
MaxTime == 3         \* last value of the clock
MaxLength == 2       \* longest secret asked of randomSecret

\* ------------------------------------------------------------------------
\* Configuration of the server
\* ------------------------------------------------------------------------
MAX_GAMES_COUNT == 2
MAX_PLAYER_COUNT == 2
MAX_INACTIVE_TIME_MINUTES == 1

\* Values randomSecret() may return (two of the 62^64 strings).
Secrets == {"s1", "s2"}
\* URLSearchParams.get() returns null when the parameter is absent.
Null == "null"
\* A capture group that did not take part in the match.
Undefined == 0
\* The value of a property that an object does not have.
Absent == "undefined"

VARIABLES
  now,            \* Date.now()
  publicGames,    \* GameServer.publicGames: the set of its keys
  privateGames,   \* GameServer.privateGames: the set of its keys
  serverLogger,   \* GameServer.logger.debugSockets: the set of its keys
  games,          \* every Game constructed so far, indexed by its id
  players,        \* every Player constructed so far, indexed by its id
  sockets,        \* every Socket constructed so far, indexed by its id
  last,           \* the last call from outside, what it returned and what it sent
  budget,         \* what this run may construct and use
  secretCall      \* the call of randomSecret(length) in progress

vars == <<now, publicGames, privateGames, serverLogger, games, players, sockets, last,
          budget, secretCall>>

GameIds == 1..Len(games)
PlayerIds == 1..Len(players)
SocketIds == 1..Len(sockets)

\* A call, its result, the join secret it returned (Null when it returned
\* none) and the send() calls it made on sockets.  Of the debug messages
\* of createGame, addPlayer, removePlayer and the upgrade callback, those
\* of Game.addPlayer and Player.addGameSocket are recorded.
Call(op, result) == [op |-> op, result |-> result, joinSecret |-> Null, sent |-> {}]

Returned(op, result, joinSecret) ==
  [op |-> op, result |-> result, joinSecret |-> joinSecret, sent |-> {}]

Sent(op, result, sent) ==
  [op |-> op, result |-> result, joinSecret |-> Null, sent |-> sent]

NoCall == Call("none", "none")

\* The runs explored: one rich in games, one rich in players, two rich in
\* sockets, of which one carries the commands and the broadcasts (traffic)
\* and the other the heartbeats, and one that uses the management API with
\* its join gates (protected games, disallowJoining).
Budgets ==
  {[games |-> MaxGameIds, players |-> 1, sockets |-> 1,
    traffic |-> FALSE, gates |-> FALSE],
   [games |-> 1, players |-> MaxPlayerIds, sockets |-> 1,
    traffic |-> FALSE, gates |-> FALSE],
   [games |-> 1, players |-> 1, sockets |-> MaxSocketIds,
    traffic |-> TRUE, gates |-> FALSE],
   [games |-> 1, players |-> 1, sockets |-> MaxSocketIds,
    traffic |-> FALSE, gates |-> FALSE],
   [games |-> 1, players |-> 2, sockets |-> 0,
    traffic |-> FALSE, gates |-> TRUE]}

\* createGame's _protected argument and the secret of the new game, in the
\* runs with and without the join gates.
Protections == IF budget.gates THEN BOOLEAN ELSE {FALSE}
JoinSecrets == IF budget.gates THEN Secrets ELSE {"s1"}

\* randomSecret(length) at its first line: i = 0 and str = '' (a string is
\* the sequence of its characters).
SecretCall(length) == [length |-> length, i |-> 0, str |-> <<>>, returned |-> FALSE]

InitServer ==
  /\ now = 1
  /\ publicGames = {}
  /\ privateGames = {}
  /\ serverLogger = {}
  /\ games = <<>>
  /\ players = <<>>
  /\ sockets = <<>>
  /\ last = NoCall
  /\ budget \in Budgets

Init ==
  /\ InitServer
  /\ secretCall = SecretCall(0)

\* JavaScript truthiness of a string, null or undefined.
Truthy(x) == x \notin {Null, "", Absent}

\* ------------------------------------------------------------------------
\* Logger
\* ------------------------------------------------------------------------

\* A send() call on socket `to`: an event (kind "event") or a debug message
\* (kind is its severity).
Message(to, kind, text) == [to |-> to, kind |-> kind, text |-> text]

\* Logger.broadcastDebugMessage: one send() per debug socket of the logger.
LoggerBroadcast(debugSockets, severity, text) ==
  {Message(d, severity, text) : d \in debugSockets}

\* ------------------------------------------------------------------------
\* Socket
\* ------------------------------------------------------------------------

\* new Socket(ws, heartbeatIntervalSeconds): connectionAlive starts true and
\* startHeartbeat() arms the interval timer.  server/game/player are the
\* owner references of the subclass.  disconnects counts the calls of
\* onDisconnect(), noPong the heartbeat ticks since the last pong, and
\* pingedClosing tells whether ping() was called on the websocket after
\* terminate(); the three only observe the run.
\*
\* ws is the state of the websocket:
\*   "open"        OPEN
\*   "terminated"  terminate() has returned and the 'close' event is pending;
\*                 an interval timer that is due in the same timers phase of
\*                 the event loop still fires before the 'close' event
\*   "closing"     the 'close' event is pending and the interval callback
\*                 has run since terminate(): the 'close' event is emitted
\*                 in this turn of the event loop, before the interval
\*                 elapses again
\*   "closed"      the 'close' listener has run
NewSocket(kind, server, game, player) ==
  [kind |-> kind, server |-> server, game |-> game, player |-> player,
   connectionAlive |-> TRUE, ws |-> "open", heartbeatInterval |-> TRUE,
   disconnects |-> 0, noPong |-> 0, pingedClosing |-> FALSE]

\* ws.terminate(): destroys the TCP socket; the 'close' event follows later.
WsTerminate(ws) == IF ws = "open" THEN "terminated" ELSE ws

\* WebSocket.send(data) without a callback on a websocket that is not open:
\* the ws library throws or drops the data, depending on its version.
WsSendNotOpen == {"dropped", "throws"}

\* WebSocket.send(data) on websocket state ws, notOpen being what the ws
\* library does on a websocket that is not open.
WsSend(ws, notOpen) == IF ws = "open" THEN "written" ELSE notOpen

SendUnguarded(s, notOpen) ==
  [threw |-> WsSend(sockets[s].ws, notOpen) = "throws", console |-> {}]

\* send(message) of GameSocket, SpectatorSocket and DebugSocket:
\* try { this.socket.send(JSON.stringify(message)) } catch (err)
\* { console.error(err) }.  threw tells whether an exception leaves send(),
\* console is what it writes to the console.
Send(s, notOpen) ==
  [threw |-> FALSE,
   console |-> IF WsSend(sockets[s].ws, notOpen) = "throws"
               THEN {Message(s, "console.error", "WebSocket is not open")}
               ELSE {}]

\* Socket.terminate() on every socket of T.
TerminateAll(socks, T) ==
  [s \in DOMAIN socks |->
     IF s \in T THEN [socks[s] EXCEPT !.ws = WsTerminate(@)] ELSE socks[s]]

\* ------------------------------------------------------------------------
\* Player
\* ------------------------------------------------------------------------

\* new Player(username): inactiveSince = 0, no sockets, a fresh secret.
NewPlayer(secret) ==
  [secret |-> secret, inactiveSince |-> 0, gameSockets |-> {}, logger |-> {}]

\* Player.debugSockets: nothing in the library calls Player.addDebugSocket
\* (the upgrade handler registers player debug sockets with player.logger),
\* so the map is empty.
PlayerDebugSockets(p) == {}

PlayerVerifySecretAny(p, secret) == TRUE

PlayerVerifySecret(p, secret) == players[p].secret = secret

PlayerActive(p) == players[p].gameSockets # {}

\* The sockets Player.terminate() terminates.
PlayerTerminate(p) == players[p].gameSockets \cup PlayerDebugSockets(p)

PlayerAddGameSocketToAll(plrs, p, s) ==
  [q \in DOMAIN plrs |-> [plrs[q] EXCEPT !.gameSockets = @ \cup {s}]]

PlayerAddGameSocket(plrs, p, s) ==
  [plrs EXCEPT ![p].gameSockets = @ \cup {s}]

\* The send() calls of Player.addGameSocket: its logger.info.
PlayerAddGameSocketSends(p) ==
  LoggerBroadcast(players[p].logger, "info", "A new game socket connected to the player.")

PlayerRemoveGameSocketKeepsTime(plrs, p, s) ==
  [plrs EXCEPT ![p].gameSockets = @ \ {s}]

PlayerRemoveGameSocketStampsAlways(plrs, p, s) ==
  [plrs EXCEPT ![p] = [@ EXCEPT !.gameSockets = @ \ {s}, !.inactiveSince = now]]

PlayerRemoveGameSocket(plrs, p, s) ==
  [plrs EXCEPT ![p] = [@ EXCEPT !.gameSockets = @ \ {s},
                                !.inactiveSince = IF plrs[p].gameSockets \ {s} = {}
                                                  THEN now ELSE @]]

\* Player.sendEvent(event): the event to every game socket, then a trace.
PlayerSendEvent(p) ==
  {Message(s, "event", "event") : s \in players[p].gameSockets}
    \cup LoggerBroadcast(players[p].logger, "trace", "Sent event.")

\* What the game's handleCommand(command) may do: return true, return false
\* or throw.
HandleCommandOutcomes == {"true", "false", "throws"}

HandleCommandInternalWrapperSilent(p, outcome) ==
  [result |-> CASE outcome = "true" -> "handled"
                [] outcome = "false" -> "unknown"
                [] outcome = "throws" -> "caught",
   sent |-> LoggerBroadcast(players[p].logger, "trace", "Received command.")]

\* Player.handleCommandInternalWrapper(command): what becomes of the command
\* and the debug messages sent.
HandleCommandInternalWrapper(p, outcome) ==
  [result |-> CASE outcome = "true" -> "handled"
                [] outcome = "false" -> "unknown"
                [] outcome = "throws" -> "caught",
   sent |-> LoggerBroadcast(players[p].logger, "trace", "Received command.")
              \cup IF outcome = "false"
                   THEN LoggerBroadcast(players[p].logger, "error",
                                        "Command is unknown and cannot be handled.")
                   ELSE {}]

\* ------------------------------------------------------------------------
\* Game
\* ------------------------------------------------------------------------

\* new Game(_protected, config): a fresh secret whether protected or not,
\* joining allowed.
NewGame(protected, secret) ==
  [players |-> {}, spectators |-> {}, logger |-> {},
   protected |-> protected, secret |-> secret, joiningAllowed |-> TRUE]

GameVerifySecretAny(g, secret) == TRUE

GameVerifySecret(g, secret) == games[g].secret = secret

Joinable(g) == games[g].joiningAllowed

GetPlayerCount(g) == Cardinality(games[g].players)

FullOffByOne(g) == ~(GetPlayerCount(g) <= MAX_PLAYER_COUNT)

Full(g) == ~(GetPlayerCount(g) < MAX_PLAYER_COUNT)

PlayerKeepsGameActiveNoWindow(p) == PlayerActive(p)

\* The test of Game.active() on one player.
PlayerKeepsGameActive(p) ==
  PlayerActive(p) \/ players[p].inactiveSince > now - MAX_INACTIVE_TIME_MINUTES

\* The value Game.active() returns.
GameActive(g) == \E p \in games[g].players : PlayerKeepsGameActive(p)

\* The sockets Game.active() terminates: those of the players it finds stale.
GameActiveTerminates(g) ==
  UNION {PlayerTerminate(p) : p \in {q \in games[g].players : ~PlayerKeepsGameActive(q)}}

\* The sockets Game.terminate() terminates.
GameTerminate(g) == UNION {PlayerTerminate(p) : p \in games[g].players}

GameBroadcastEventPlayersOnly(g, omitPlayersById) ==
  LoggerBroadcast(games[g].logger, "trace", "Broadcasting event to all players...")
    \cup UNION {PlayerSendEvent(p) : p \in games[g].players \ omitPlayersById}

GameBroadcastEventToAll(g, omitPlayersById) ==
  LoggerBroadcast(games[g].logger, "trace", "Broadcasting event to all players...")
    \cup UNION {PlayerSendEvent(p) : p \in games[g].players}
    \cup {Message(s, "event", "event") : s \in games[g].spectators}

\* Game.broadcastEvent(event, ...omitPlayersById): the send() calls made.
GameBroadcastEvent(g, omitPlayersById) ==
  LoggerBroadcast(games[g].logger, "trace", "Broadcasting event to all players...")
    \cup UNION {PlayerSendEvent(p) : p \in games[g].players \ omitPlayersById}
    \cup {Message(s, "event", "event") : s \in games[g].spectators}

\* Game.broadcastEvent called by the game logic, notOpen being what the ws
\* library does on a websocket that is not open: the result is "throws" if
\* an exception leaves one of the send() calls.
BroadcastEventWith(g, omitPlayersById, notOpen) ==
  LET calls == GameBroadcastEvent(g, omitPlayersById)
      results == {Send(m.to, notOpen) : m \in calls}
  IN /\ budget.traffic
     /\ g \in GameIds
     /\ last' = Sent("broadcastEvent",
                     IF \E r \in results : r.threw THEN "throws" ELSE "sent",
                     calls \cup UNION {r.console : r \in results})
     /\ UNCHANGED <<now, publicGames, privateGames, serverLogger, games, players, sockets,
                    budget, secretCall>>

BroadcastEvent(g, omitPlayersById) ==
  \E notOpen \in WsSendNotOpen : BroadcastEventWith(g, omitPlayersById, notOpen)

\* Game.disallowJoining() called by the game logic.
DisallowJoining(g) ==
  /\ budget.gates
  /\ g \in GameIds
  /\ games' = [games EXCEPT ![g].joiningAllowed = FALSE]
  /\ UNCHANGED <<now, publicGames, privateGames, serverLogger, players, sockets, last,
                 budget, secretCall>>

\* Game.allowJoining() called by the game logic.
AllowJoining(g) ==
  /\ budget.gates
  /\ g \in GameIds
  /\ games' = [games EXCEPT ![g].joiningAllowed = TRUE]
  /\ UNCHANGED <<now, publicGames, privateGames, serverLogger, players, sockets, last,
                 budget, secretCall>>

\* ------------------------------------------------------------------------
\* GameServer
\* ------------------------------------------------------------------------

GetGame(gameId) ==
  IF gameId \in publicGames \cup privateGames THEN gameId ELSE Undefined

MaxGamesCountReached(pub, priv) ==
  Cardinality(pub) + Cardinality(pub) = MAX_GAMES_COUNT

\* deleteInactive(): the games its loop visits, and those it deletes.
SweepVisits == publicGames

SweepDeletesAll == SweepVisits

SweepDeletes == {g \in SweepVisits : ~GameActive(g)}

SweepTerminates ==
  UNION {GameActiveTerminates(g) : g \in SweepVisits}
    \cup UNION {GameTerminate(g) : g \in SweepDeletes}

\* createGame: this.publicGames[game.id] = game when _public.
RegisterPublic(pub, id, public) == IF public THEN pub \cup {id} ELSE pub

RegisterPrivateAlways(priv, id, public) == priv \cup {id}

\* createGame: this.privateGames[game.id] = game otherwise.
RegisterPrivate(priv, id, public) == IF public THEN priv ELSE priv \cup {id}

\* GameServer.createGame(_public, _protected, config)
CreateGame(public, protected, secret) ==
  LET deleted == SweepDeletes
      pub == publicGames \ deleted
      priv == privateGames \ deleted
      id == Len(games) + 1
  IN /\ sockets' = TerminateAll(sockets, SweepTerminates)
     /\ IF MaxGamesCountReached(pub, priv)
        THEN /\ publicGames' = pub
             /\ privateGames' = priv
             /\ last' = Call("createGame", "CapacityReached")
             /\ UNCHANGED games
        ELSE /\ Len(games) < budget.games
             /\ games' = Append(games, NewGame(protected, secret))
             /\ publicGames' = RegisterPublic(pub, id, public)
             /\ privateGames' = RegisterPrivate(priv, id, public)
             /\ last' = Returned("createGame", "created", games'[id].secret)
     /\ UNCHANGED <<now, serverLogger, players, budget, secretCall>>

\* The send() calls of a successful Game.addPlayer: its logger.info.
GameAddPlayerSends(g) ==
  LoggerBroadcast(games[g].logger, "info", "joined the game.")

\* Game.addPlayer(username)
AddPlayer(g, secret) ==
  /\ g \in publicGames \cup privateGames
  /\ IF Full(g)
     THEN /\ last' = Call("addPlayer", "The game is full.")
          /\ UNCHANGED <<games, players>>
     ELSE /\ Len(players) < budget.players
          /\ players' = Append(players, NewPlayer(secret))
          /\ games' = [games EXCEPT ![g].players = @ \cup {Len(players) + 1}]
          /\ last' = Sent("addPlayer", "added", GameAddPlayerSends(g))
  /\ UNCHANGED <<now, publicGames, privateGames, serverLogger, sockets, budget, secretCall>>

\* Game.removePlayer(player)
RemovePlayer(g, p) ==
  /\ g \in GameIds
  /\ p \in games[g].players
  /\ games' = [games EXCEPT ![g].players = @ \ {p}]
  /\ last' = Call("removePlayer", "removed")
  /\ UNCHANGED <<now, publicGames, privateGames, serverLogger, players, sockets, budget, secretCall>>

\* ------------------------------------------------------------------------
\* Management API
\* ------------------------------------------------------------------------

\* POST /api/games: the handler tests maxGamesCountReached() and answers
\* 403, or calls createGame, which sweeps, tests again and throws or
\* creates the game (201).
ApiCreateGame(public, protected, secret) ==
  LET deleted == SweepDeletes
      pub == publicGames \ deleted
      priv == privateGames \ deleted
      id == Len(games) + 1
  IN /\ budget.gates
     /\ IF MaxGamesCountReached(publicGames, privateGames)
        THEN /\ last' = Call("POST /api/games", "403")
             /\ UNCHANGED <<games, publicGames, privateGames, sockets>>
        ELSE /\ sockets' = TerminateAll(sockets, SweepTerminates)
             /\ IF MaxGamesCountReached(pub, priv)
                THEN /\ publicGames' = pub
                     /\ privateGames' = priv
                     /\ last' = Call("POST /api/games", "createGame throws")
                     /\ UNCHANGED games
                ELSE /\ Len(games) < budget.games
                     /\ games' = Append(games, NewGame(protected, secret))
                     /\ publicGames' = RegisterPublic(pub, id, public)
                     /\ privateGames' = RegisterPrivate(priv, id, public)
                     /\ last' = Returned("POST /api/games", "201", games'[id].secret)
     /\ UNCHANGED <<now, serverLogger, players, budget, secretCall>>

\* req.body.username and req.body.join_secret: "" stands for a missing or
\* empty field.
Usernames == {"", "alice"}
BodyJoinSecrets == Secrets \cup {""}

\* The response of POST /api/games/:gameId/players.
ApiAddPlayerResponse(gameId, username, joinSecret) ==
  LET game == GetGame(gameId)
  IN IF game = Undefined THEN "Game not found."
     ELSE IF Full(game) THEN "Player limit has been reached."
     ELSE IF ~Joinable(game)
     THEN "Joining has been temporarily disallowed by the game logic."
     ELSE IF ~Truthy(username) THEN "Please specify a username."
     ELSE IF games[game].protected /\ ~Truthy(joinSecret)
     THEN "The game is protected. Please provide a join secret."
     ELSE IF games[game].protected /\ ~GameVerifySecret(game, joinSecret)
     THEN "Incorrect join secret provided."
     ELSE "player_id, player_secret"

\* POST /api/games/:gameId/players
ApiAddPlayer(gameId, username, joinSecret, secret) ==
  LET response == ApiAddPlayerResponse(gameId, username, joinSecret)
  IN /\ budget.gates
     /\ IF response = "player_id, player_secret"
        THEN /\ Len(players) < budget.players
             /\ players' = Append(players, NewPlayer(secret))
             /\ games' = [games EXCEPT ![gameId].players = @ \cup {Len(players) + 1}]
             /\ last' = Sent("POST /api/games/:gameId/players", response,
                             GameAddPlayerSends(gameId))
        ELSE /\ last' = Call("POST /api/games/:gameId/players", response)
             /\ UNCHANGED <<games, players>>
     /\ UNCHANGED <<now, publicGames, privateGames, serverLogger, sockets, budget, secretCall>>

\* ------------------------------------------------------------------------
\* Upgrade requests
\* ------------------------------------------------------------------------

\* request.url as its path segments and the value of the player_secret
\* query parameter (Null when the parameter is absent, "" when it is empty).
\* A game or player id is written as the index of the object.
Routes == {"spectate", "debug", "players", "stats"}
PlayerRoutes == {"connect", "debug", "stats"}

Urls ==
  {[path |-> <<"api", "debug">>, secret |-> Null],
   [path |-> <<"ws">>, secret |-> Null]}
  \cup {[path |-> <<"api", "games", g, r>>, secret |-> Null] :
          g \in 1..MaxGameIds, r \in Routes}
  \cup {[path |-> <<"api", "games", g, "players", p>>, secret |-> Null] :
          g \in 1..MaxGameIds, p \in 1..MaxPlayerIds}
  \cup {[path |-> <<"api", "games", g, "players", p, r>>, secret |-> s] :
          g \in 1..MaxGameIds, p \in 1..MaxPlayerIds, r \in PlayerRoutes,
          s \in Secrets \cup {Null, ""}}

\* GameServer.deserializeURL(url): the path matcher accepts
\* /api/games/<gameId>/<route> optionally followed by /<playerId>/<playerRoute>;
\* when it does not match, every group and the query are undefined.
PathMatches(path) ==
  /\ Len(path) \in {4, 6}
  /\ path[1] = "api"
  /\ path[2] = "games"

DeserializeURL(url) ==
  IF PathMatches(url.path)
  THEN [gameId |-> url.path[3],
        route |-> url.path[4],
        playerId |-> IF Len(url.path) = 6 THEN url.path[5] ELSE Undefined,
        playerRoute |-> IF Len(url.path) = 6 THEN url.path[6] ELSE "",
        playerSecret |-> url.secret]
  ELSE [gameId |-> Undefined, route |-> "", playerId |-> Undefined,
        playerRoute |-> "", playerSecret |-> Null]

\* Game.getPlayer(playerId): this.players[playerId]
GetPlayer(g, playerId) ==
  IF playerId \in games[g].players THEN playerId ELSE Undefined

\* What the upgrade callback does with the websocket it is given:
\*   "destroyed"  socket.destroy() and return: no url, no match, no such game
\*   "unauthorized"  socket.destroy() and return: verifySecret() was false
\*   "serverDebug", "spectator", "gameDebug", "game", "playerDebug"
\*                a Socket of that kind is constructed and registered
\*   "TypeError"  player.verifySecret is read on undefined
\*   "unowned"    the callback returns without doing anything
UpgradeOutcome(url) ==
  LET d == DeserializeURL(url)
      game == GetGame(d.gameId)
  IN IF url.path = <<"api", "debug">> THEN "serverDebug"
     ELSE IF d.gameId = Undefined THEN "destroyed"
     ELSE IF game = Undefined THEN "destroyed"
     ELSE IF d.route = "spectate" THEN "spectator"
     ELSE IF d.route = "debug" THEN "gameDebug"
     ELSE IF d.route = "players" /\ d.playerId # Undefined /\ Truthy(d.playerSecret)
     THEN LET player == GetPlayer(game, d.playerId)
          IN IF player = Undefined THEN "TypeError"
             ELSE IF ~PlayerVerifySecret(player, d.playerSecret) THEN "unauthorized"
             ELSE IF d.playerRoute = "connect" THEN "game"
             ELSE IF d.playerRoute = "debug" THEN "playerDebug"
             ELSE "unowned"
     ELSE "unowned"

\* The callback of wss.handleUpgrade in GameServer.handleUpgrades().
HandleUpgrade(url) ==
  LET d == DeserializeURL(url)
      outcome == UpgradeOutcome(url)
      id == Len(sockets) + 1
  IN /\ Len(sockets) < budget.sockets
     /\ CASE outcome = "serverDebug" ->
               /\ sockets' = Append(sockets, NewSocket("debug", TRUE, 0, 0))
               /\ serverLogger' = serverLogger \cup {id}
               /\ last' = Call("upgrade", outcome)
               /\ UNCHANGED <<games, players>>
          [] outcome = "spectator" ->
               /\ sockets' = Append(sockets, NewSocket("spectator", FALSE, d.gameId, 0))
               /\ games' = [games EXCEPT ![d.gameId].spectators = @ \cup {id}]
               /\ last' = Call("upgrade", outcome)
               /\ UNCHANGED <<serverLogger, players>>
          [] outcome = "gameDebug" ->
               /\ sockets' = Append(sockets, NewSocket("debug", FALSE, d.gameId, 0))
               /\ games' = [games EXCEPT ![d.gameId].logger = @ \cup {id}]
               /\ last' = Call("upgrade", outcome)
               /\ UNCHANGED <<serverLogger, players>>
          [] outcome = "game" ->
               /\ sockets' = Append(sockets, NewSocket("game", FALSE, 0, d.playerId))
               /\ players' = PlayerAddGameSocket(players, d.playerId, id)
               /\ last' = Sent("upgrade", outcome, PlayerAddGameSocketSends(d.playerId))
               /\ UNCHANGED <<serverLogger, games>>
          [] outcome = "playerDebug" ->
               /\ sockets' = Append(sockets, NewSocket("debug", FALSE, 0, d.playerId))
               /\ players' = [players EXCEPT ![d.playerId].logger = @ \cup {id}]
               /\ last' = Call("upgrade", outcome)
               /\ UNCHANGED <<serverLogger, games>>
          [] OTHER ->
               /\ last' = Call("upgrade", outcome)
               /\ UNCHANGED <<serverLogger, games, players, sockets>>
     /\ UNCHANGED <<now, publicGames, privateGames, budget, secretCall>>

\* ------------------------------------------------------------------------
\* Messages on a game socket
\* ------------------------------------------------------------------------

\* message.data.toString(): text that is not JSON, and the JSON texts of
\* null, a number, an array, an object without name, an object whose name
\* is empty and a command.
MessageData ==
  {"move", "null", "7", "[]", "{}", "{\"name\":\"\"}", "{\"name\":\"move\"}"}

\* JSON.parse(data): threw is TRUE for a SyntaxError; otherwise type is the
\* kind of the JSON value and name its name property.
JSONParse(data) ==
  CASE data = "null" -> [threw |-> FALSE, type |-> "null", name |-> Absent]
    [] data = "7" -> [threw |-> FALSE, type |-> "number", name |-> Absent]
    [] data = "[]" -> [threw |-> FALSE, type |-> "array", name |-> Absent]
    [] data = "{}" -> [threw |-> FALSE, type |-> "object", name |-> Absent]
    [] data = "{\"name\":\"\"}" -> [threw |-> FALSE, type |-> "object", name |-> ""]
    [] data = "{\"name\":\"move\"}" ->
         [threw |-> FALSE, type |-> "object", name |-> "move"]
    [] OTHER -> [threw |-> TRUE, type |-> Absent, name |-> Absent]

\* typeof value: "object" for null, arrays and objects.
TypeOf(v) == IF v.type \in {"null", "array", "object"} THEN "object" ELSE v.type

HasNameAlways(v) == TRUE

\* deserialized.name is truthy.
HasName(v) == Truthy(v.name)

\* GameSocket.handleMessage(message) on a socket of player p.  Reading the
\* name property of null throws a TypeError, which the catch block reports
\* like a SyntaxError of JSON.parse.
GameSocketHandleMessage(p, data, outcome) ==
  LET v == JSONParse(data)
      error(text) == [result |-> "rejected",
                      sent |-> LoggerBroadcast(players[p].logger, "error", text)]
  IN IF v.threw THEN error("Unable to deserialize socket message.")
     ELSE IF TypeOf(v) # "object"
     THEN error("Socket message must represent a JSON object.")
     ELSE IF v.type = "null" THEN error("Unable to deserialize socket message.")
     ELSE IF ~HasName(v)
     THEN error("Commands must have a name property to be valid.")
     ELSE HandleCommandInternalWrapper(p, outcome)

\* The listeners of the websocket's 'message' event: the constructor of
\* GameSocket adds handleMessage; SpectatorSocket and DebugSocket add none.
MessageListeners(kind) == IF kind = "game" THEN {"handleMessage"} ELSE {}

\* 'message' listener of a GameSocket.
HandleMessage(s, data, outcome) ==
  /\ budget.traffic
  /\ s \in SocketIds
  /\ "handleMessage" \in MessageListeners(sockets[s].kind)
  /\ sockets[s].ws = "open"
  /\ LET r == GameSocketHandleMessage(sockets[s].player, data, outcome)
     IN last' = Sent("message", r.result, r.sent)
  /\ UNCHANGED <<now, publicGames, privateGames, serverLogger, games, players, sockets,
                 budget, secretCall>>

\* A message arrives on a websocket whose 'message' event has no listener:
\* the ws library emits the event and nothing runs.
MessageWithoutListener(s) ==
  /\ budget.traffic
  /\ s \in SocketIds
  /\ MessageListeners(sockets[s].kind) = {}
  /\ sockets[s].ws = "open"
  /\ last' = Call("message", "no listener")
  /\ UNCHANGED <<now, publicGames, privateGames, serverLogger, games, players, sockets,
                 budget, secretCall>>

\* ------------------------------------------------------------------------
\* Socket events
\* ------------------------------------------------------------------------

OnDisconnectKeepsOwner(s) == UNCHANGED <<players, games, serverLogger>>

\* onDisconnect() of the socket's class: GameSocket calls
\* player.removeGameSocket, SpectatorSocket game.removeSpectator, DebugSocket
\* removeDebugSocket on the logger of each owner reference that is set.
OnDisconnect(s) ==
  LET k == sockets[s]
  IN CASE k.kind = "game" ->
            /\ players' = PlayerRemoveGameSocket(players, k.player, s)
            /\ UNCHANGED <<games, serverLogger>>
       [] k.kind = "spectator" ->
            /\ games' = [games EXCEPT ![k.game].spectators = @ \ {s}]
            /\ UNCHANGED <<players, serverLogger>>
       [] k.kind = "debug" ->
            /\ serverLogger' = IF k.server THEN serverLogger \ {s} ELSE serverLogger
            /\ games' = IF k.game # 0
                        THEN [games EXCEPT ![k.game].logger = @ \ {s}] ELSE games
            /\ players' = IF k.player # 0
                          THEN [players EXCEPT ![k.player].logger = @ \ {s}] ELSE players

Notified(k) == [k EXCEPT !.disconnects = @ + 1]

PongTimedOutNever(k) == FALSE

\* The test of the interval callback: no pong since the previous ping.
PongTimedOut(k) == k.connectionAlive = FALSE

PongIgnored(s) ==
  /\ ~budget.traffic
  /\ s \in SocketIds
  /\ sockets[s].ws = "open"
  /\ sockets' = [sockets EXCEPT ![s] = [@ EXCEPT !.noPong = 0]]
  /\ UNCHANGED <<now, publicGames, privateGames, serverLogger, games, players, last, budget, secretCall>>

\* 'pong' listener
Pong(s) ==
  /\ ~budget.traffic
  /\ s \in SocketIds
  /\ sockets[s].ws = "open"
  /\ sockets' = [sockets EXCEPT ![s] = [@ EXCEPT !.connectionAlive = TRUE, !.noPong = 0]]
  /\ UNCHANGED <<now, publicGames, privateGames, serverLogger, games, players, last, budget, secretCall>>

\* this.socket.terminate() in the interval callback.
Terminated(k) == [k EXCEPT !.ws = WsTerminate(@)]

\* this.connectionAlive = false; this.socket.ping(): the last two
\* statements of the interval callback, which every tick executes.
Pinged(k) ==
  [k EXCEPT !.connectionAlive = FALSE,
            !.pingedClosing = @ \/ k.ws # "open",
            !.noPong = IF @ < 2 THEN @ + 1 ELSE @]

\* The interval callback has returned: the timer fires next after a whole
\* interval, by which time a pending 'close' event has been processed.
TimerRearmed(k) == [k EXCEPT !.ws = IF @ = "terminated" THEN "closing" ELSE @]

\* The interval callback of startHeartbeat(): it runs as long as the timer
\* is not cleared, except between its own previous run on a terminated
\* websocket and the 'close' event.
HeartbeatTick(s) ==
  /\ ~budget.traffic
  /\ s \in SocketIds
  /\ sockets[s].heartbeatInterval
  /\ sockets[s].ws # "closing"
  /\ IF PongTimedOut(sockets[s])
     THEN /\ sockets' = [sockets EXCEPT ![s] =
                           TimerRearmed(Pinged(Notified(Terminated(@))))]
          /\ OnDisconnect(s)
     ELSE /\ sockets' = [sockets EXCEPT ![s] = TimerRearmed(Pinged(@))]
          /\ UNCHANGED <<serverLogger, games, players>>
  /\ UNCHANGED <<now, publicGames, privateGames, last, budget, secretCall>>

\* Socket.terminate() called by the game logic; on a websocket that is not
\* open it does nothing.
SocketTerminate(s) ==
  /\ s \in SocketIds
  /\ sockets' = TerminateAll(sockets, {s})
  /\ UNCHANGED <<now, publicGames, privateGames, serverLogger, games, players, last, budget, secretCall>>

\* Player.terminate() called by the game logic.
PlayerTerminateCall(p) ==
  /\ ~budget.traffic
  /\ p \in PlayerIds
  /\ sockets' = TerminateAll(sockets, PlayerTerminate(p))
  /\ UNCHANGED <<now, publicGames, privateGames, serverLogger, games, players, last, budget, secretCall>>

ClearIntervalNever(k) == k

\* if (this.heartbeatInterval) clearInterval(this.heartbeatInterval)
ClearInterval(k) == [k EXCEPT !.heartbeatInterval = FALSE]

\* 'close' listener: runs when the peer closes or the network fails (the
\* websocket was open) and after ws.terminate().
Close(s) ==
  /\ s \in SocketIds
  /\ sockets[s].ws \in {"open", "terminated", "closing"}
  /\ sockets' = [sockets EXCEPT ![s] = ClearInterval([Notified(@) EXCEPT !.ws = "closed"])]
  /\ OnDisconnect(s)
  /\ UNCHANGED <<now, publicGames, privateGames, last, budget, secretCall>>

\* The clock advances.
Tick ==
  /\ now < MaxTime
  /\ now' = now + 1
  /\ UNCHANGED <<publicGames, privateGames, serverLogger, games, players, sockets, last, budget, secretCall>>

Next ==
  \/ \E public \in BOOLEAN, protected \in Protections, secret \in JoinSecrets :
       CreateGame(public, protected, secret)
  \/ \E public \in BOOLEAN, protected \in Protections, secret \in JoinSecrets :
       ApiCreateGame(public, protected, secret)
  \/ \E g \in GameIds, secret \in Secrets : AddPlayer(g, secret)
  \/ \E g \in GameIds, p \in PlayerIds : RemovePlayer(g, p)
  \/ \E g \in GameIds, omit \in SUBSET PlayerIds : BroadcastEvent(g, omit)
  \/ \E g \in GameIds : DisallowJoining(g)
  \/ \E g \in GameIds : AllowJoining(g)
  \/ \E gameId \in 1..MaxGameIds, username \in Usernames,
        joinSecret \in BodyJoinSecrets, secret \in Secrets :
       ApiAddPlayer(gameId, username, joinSecret, secret)
  \/ \E url \in Urls : HandleUpgrade(url)
  \/ \E s \in SocketIds, data \in MessageData, outcome \in HandleCommandOutcomes :
       HandleMessage(s, data, outcome)
  \/ \E s \in SocketIds : MessageWithoutListener(s)
  \/ \E s \in SocketIds : Pong(s)
  \/ \E s \in SocketIds : HeartbeatTick(s)
  \/ \E s \in SocketIds : SocketTerminate(s)
  \/ \E p \in PlayerIds : PlayerTerminateCall(p)
  \/ \E s \in SocketIds : Close(s)
  \/ Tick

Spec == Init /\ [][Next]_vars

\* ------------------------------------------------------------------------
\* randomSecret
\* ------------------------------------------------------------------------

chars ==
  <<"A", "B", "C", "D", "E", "F", "G", "H", "I", "J", "K", "L", "M",
    "N", "O", "P", "Q", "R", "S", "T", "U", "V", "W", "X", "Y", "Z",
    "a", "b", "c", "d", "e", "f", "g", "h", "i", "j", "k", "l", "m",
    "n", "o", "p", "q", "r", "s", "t", "u", "v", "w", "x", "y", "z",
    "0", "1", "2", "3", "4", "5", "6", "7", "8", "9">>

\* String.prototype.charAt(index): '' when index is out of range.
CharAt(str, index) == IF index \in 0..(Len(str) - 1) THEN str[index + 1] ELSE ""

\* str += c
Concat(str, c) == IF c = "" THEN str ELSE Append(str, c)

RandomIndicesInclusive(n) == 0..n

\* Math.floor(Math.random() * n): Math.random() is in [0, 1).
RandomIndices(n) == 0..(n - 1)

\* One turn of the for loop.
RandomSecretLoop ==
  /\ ~secretCall.returned
  /\ secretCall.i < secretCall.length
  /\ \E r \in RandomIndices(Len(chars)) :
       secretCall' = [secretCall EXCEPT !.str = Concat(@, CharAt(chars, r)),
                                        !.i = @ + 1]
  /\ UNCHANGED <<now, publicGames, privateGames, serverLogger, games, players, sockets,
                 last, budget>>

\* return str
RandomSecretReturn ==
  /\ ~secretCall.returned
  /\ ~(secretCall.i < secretCall.length)
  /\ secretCall' = [secretCall EXCEPT !.returned = TRUE]
  /\ UNCHANGED <<now, publicGames, privateGames, serverLogger, games, players, sockets,
                 last, budget>>

\* The next call.
RandomSecretCall(length) ==
  /\ secretCall.returned
  /\ secretCall' = SecretCall(length)
  /\ UNCHANGED <<now, publicGames, privateGames, serverLogger, games, players, sockets,
                 last, budget>>

SecretInit ==
  /\ InitServer
  /\ secretCall \in {SecretCall(length) : length \in 0..MaxLength}

SecretNext ==
  \/ RandomSecretLoop
  \/ RandomSecretReturn
  \/ \E length \in 0..MaxLength : RandomSecretCall(length)

SecretSpec == SecretInit /\ [][SecretNext]_vars

\* ------------------------------------------------------------------------
\* Properties
\* ------------------------------------------------------------------------

Registered == publicGames \cup privateGames

CreateGameStep ==
  \E public \in BOOLEAN, protected \in BOOLEAN, secret \in Secrets :
    CreateGame(public, protected, secret)

\* The owning maps that hold socket s.
Owners(s) ==
  {<<"serverLogger", 0>> : x \in {y \in {0} : s \in serverLogger}}
    \cup {<<"spectators", g>> : g \in {h \in GameIds : s \in games[h].spectators}}
    \cup {<<"gameLogger", g>> : g \in {h \in GameIds : s \in games[h].logger}}
    \cup {<<"gameSockets", p>> : p \in {q \in PlayerIds : s \in players[q].gameSockets}}
    \cup {<<"playerLogger", p>> : p \in {q \in PlayerIds : s \in players[q].logger}}

\* C1: the number of public games plus the number of private games never
\* exceeds MAX_GAMES_COUNT.
C1_GameCountBounded ==
  Cardinality(publicGames) + Cardinality(privateGames) <= MAX_GAMES_COUNT

\* C2: when the sweep of a createGame call has finished, every game of the
\* public or of the private mapping that was inactive at the sweep is in
\* neither mapping and none of its players' sockets is left open.
C2_SweepRemovesInactive ==
  [][CreateGameStep =>
       \A g \in Registered :
         ~GameActive(g) =>
           /\ g \notin publicGames' \cup privateGames'
           /\ \A s \in GameTerminate(g) : sockets'[s].ws # "open"]_vars

\* C3: the sweep of a createGame call leaves every active game in its
\* mapping, with its players' game sockets registered and their websockets
\* in the state they were in.
C3_SweepKeepsActive ==
  [][CreateGameStep =>
       \A g \in Registered :
         GameActive(g) =>
           /\ (g \in publicGames => g \in publicGames')
           /\ (g \in privateGames => g \in privateGames')
           /\ games'[g] = games[g]
           /\ \A p \in games[g].players :
                /\ players'[p].gameSockets = players[p].gameSockets
                /\ \A s \in players[p].gameSockets : sockets'[s].ws = sockets[s].ws]_vars

\* createGame has just returned, and its sweep visited a public game
\* with a connected player: the player, its socket and the game are older
\* than the call, since every later call from outside would be in last.
C3_Witness ==
  /\ last.op = "createGame"
  /\ \E g \in publicGames :
       /\ last.result = "created" => g < Len(games)
       /\ \E p \in games[g].players :
            \E s \in players[p].gameSockets : sockets[s].ws = "open"

\* The requests on the connect route of player p of the registered game g
\* that carry a secret other than the player's.
WrongSecretConnects(g, p) ==
  {[path |-> <<"api", "games", g, "players", p, "connect">>, secret |-> s] :
     s \in Secrets \ {players[p].secret}}

\* C4: a player gains a game socket only by an upgrade request that carries
\* the player's secret; a request on the connect route of a player that
\* carries another secret is destroyed and changes no player and no socket.
C4_ConnectNeedsSecret ==
  [][/\ \A p \in PlayerIds :
          ~(players'[p].gameSockets \subseteq players[p].gameSockets) =>
            \E url \in Urls :
              /\ HandleUpgrade(url)
              /\ DeserializeURL(url).playerId = p
              /\ DeserializeURL(url).playerSecret = players[p].secret
     /\ \A g \in Registered :
          \A p \in games[g].players :
            \A url \in WrongSecretConnects(g, p) :
              HandleUpgrade(url) =>
                /\ last' = Call("upgrade", "unauthorized")
                /\ players' = players
                /\ sockets' = sockets]_vars

\* verifySecret() has just refused an upgrade request, after another request
\* had attached a game socket.
C4_Witness ==
  /\ last = Call("upgrade", "unauthorized")
  /\ \E p \in PlayerIds : players[p].gameSockets # {}

\* C5: an upgrade request that names an existing game and a player id that
\* is not in that game is destroyed, attaches nothing and raises no error.
C5_UnknownPlayerRejected ==
  [][\A url \in Urls :
       HandleUpgrade(url) =>
         LET d == DeserializeURL(url)
         IN ( /\ GetGame(d.gameId) # Undefined
              /\ d.route = "players"
              /\ d.playerId # Undefined
              /\ d.playerId \notin games[d.gameId].players )
            => /\ last' = Call("upgrade", "destroyed")
               /\ sockets' = sockets]_vars

\* C6: when the upgrade callback returns, the websocket is registered with
\* exactly one owner or has been destroyed.
C6_UpgradeOwnedOrClosed ==
  [][\A url \in Urls :
       (HandleUpgrade(url) /\ last'.result # "TypeError") =>
         \/ last'.result \in {"destroyed", "unauthorized"}
         \/ /\ Len(sockets') = Len(sockets) + 1
            /\ Cardinality(Owners(Len(sockets))') = 1]_vars

\* C7: addPlayer on a full game throws "The game is full." and changes no
\* game and no player, and no game ever has more than MAX_PLAYER_COUNT
\* players.
C7_PlayerCountBounded ==
  /\ [](\A g \in GameIds : GetPlayerCount(g) <= MAX_PLAYER_COUNT)
  /\ [][\A g \in GameIds, secret \in Secrets :
          (AddPlayer(g, secret) /\ GetPlayerCount(g) >= MAX_PLAYER_COUNT) =>
            /\ games' = games
            /\ players' = players
            /\ last'.result = "The game is full."]_vars

\* addPlayer was refused by a game that holds MAX_PLAYER_COUNT players.
C7_Witness ==
  /\ last.op = "addPlayer"
  /\ last.result = "The game is full."
  /\ \E g \in Registered : GetPlayerCount(g) = MAX_PLAYER_COUNT

\* C8: a socket that saw two heartbeat ticks and no pong since before the
\* first of them has had its websocket terminated.
C8_TwoMissedPongsTerminate ==
  \A s \in SocketIds : sockets[s].noPong >= 2 => sockets[s].ws # "open"

\* The second tick without a pong has terminated the websocket.
C8_Witness ==
  \E s \in SocketIds :
    /\ sockets[s].noPong = 2
    /\ sockets[s].ws = "closing"
    /\ sockets[s].disconnects = 1

\* C9: onDisconnect() of a socket is called exactly once, whatever ends the
\* socket: never twice, and once by the time the websocket is closed.
C9_DisconnectOnce ==
  \A s \in SocketIds :
    /\ sockets[s].disconnects <= 1
    /\ sockets[s].ws = "closed" => sockets[s].disconnects = 1

\* C10: inactiveSince of a player is nonzero exactly when the player has no
\* game socket.
C10_InactiveSinceIffNoSockets ==
  \A p \in PlayerIds :
    (players[p].inactiveSince # 0) <=> (players[p].gameSockets = {})

\* C11: when removeGameSocket removes the last game socket of a player,
\* Player.active() is false afterwards and inactiveSince is a timestamp not
\* earlier than the time of the call.
C11_LastSocketSetsInactiveSince ==
  [][\A p \in PlayerIds :
       (players[p].gameSockets # {} /\ players'[p].gameSockets = {}) =>
         /\ ~PlayerActive(p)'
         /\ players'[p].inactiveSince >= now]_vars

\* A game socket of a player has been disconnected and the player is left
\* without game sockets.
C11_Witness ==
  \E s \in SocketIds :
    /\ sockets[s].kind = "game"
    /\ sockets[s].disconnects >= 1
    /\ players[sockets[s].player].gameSockets = {}
    /\ players[sockets[s].player].inactiveSince >= 1

\* C12: Game.active() is true exactly when one of the game's players has a
\* registered game socket or an inactiveSince later than now minus the
\* inactivity window; for a game without players it is false.
C12_ActiveIffPlayerWithinWindow ==
  \A g \in GameIds :
    /\ GameActive(g) <=>
         \E p \in games[g].players :
           \/ players[p].gameSockets # {}
           \/ players[p].inactiveSince > now - MAX_INACTIVE_TIME_MINUTES
    /\ games[g].players = {} => ~GameActive(g)

\* The sweep of createGame has asked active() of a public game whose only
\* claim to activity is a player disconnected within the window, and of a
\* game (the new one) without players.
C12_Witness ==
  /\ last.op = "createGame"
  /\ \E g \in publicGames :
       /\ GameActive(g)
       /\ \A p \in games[g].players : players[p].gameSockets = {}
  /\ \E g \in GameIds : games[g].players = {} /\ ~GameActive(g)

\* C13: a public game that has just been given a player (the player was
\* added less than the inactivity window ago and has no socket yet) is not
\* deleted by the inactivity sweep.
C13_NewPlayerKeepsGame ==
  [][\A g \in publicGames, secret \in Secrets :
       (AddPlayer(g, secret) /\ last'.result = "added") => g \notin SweepDeletes']_vars

\* C15: when the sweep of createGame deletes a game, every game socket of
\* its players and every spectator socket of the game is terminated.
C15_SweepTerminatesOwned ==
  [][CreateGameStep =>
       \A g \in Registered :
         g \notin publicGames' \cup privateGames' =>
           \A s \in UNION {players[p].gameSockets : p \in games[g].players}
                     \cup games[g].spectators :
             sockets'[s].ws # "open"]_vars

C16_JoinSecretIffProtected ==
  [][\A public \in BOOLEAN, protected \in BOOLEAN, secret \in Secrets :
       (CreateGame(public, protected, secret) /\ last'.result = "created") =>
         (last'.joinSecret # Null <=> protected)]_vars

\* C17: POST /api/games/:gameId/players adds a player only to a game that
\* is not full and joinable and, when the game is protected, only with
\* the game's secret; every other request is refused and changes no game
\* and no player.
C17_ApiAddPlayerGated ==
  [][\A gameId \in 1..MaxGameIds, username \in Usernames,
        joinSecret \in BodyJoinSecrets, secret \in Secrets :
       (last'.op = "POST /api/games/:gameId/players"
          /\ ApiAddPlayer(gameId, username, joinSecret, secret)) =>
         LET legal == /\ gameId \in Registered
                      /\ GetPlayerCount(gameId) < MAX_PLAYER_COUNT
                      /\ games[gameId].joiningAllowed
                      /\ games[gameId].protected => joinSecret = games[gameId].secret
         IN /\ (games' # games \/ players' # players) => legal
            /\ ~legal => /\ games' = games
                          /\ players' = players
                          /\ last'.result # "player_id, player_secret"]_vars

\* A request with a wrong join secret has been refused by a protected game
\* that had admitted a player before.
C17_Witness ==
  /\ last = Call("POST /api/games/:gameId/players", "Incorrect join secret provided.")
  /\ \E g \in Registered : games[g].protected /\ games[g].players # {}

\* The messages that are not a JSON object with a name.
Malformed == MessageData \ {"{\"name\":\"move\"}"}

\* C18: a message that is not JSON, is not a JSON object (null and the
\* non-object values included) or has no name never reaches handleCommand.
C18_MalformedNeverDispatched ==
  [][\A s \in SocketIds, data \in Malformed, outcome \in HandleCommandOutcomes :
       (last'.op = "message" /\ HandleMessage(s, data, outcome)) =>
         last'.result \notin {"handled", "unknown", "caught"}]_vars

\* A message has been rejected while the player had a debug socket to hear of it.
C18_Witness ==
  /\ last.op = "message"
  /\ last.result = "rejected"
  /\ \E m \in last.sent : m.kind = "error"

\* C19: a malformed message is answered by an error event sent to the
\* socket it came from, and the socket stays open and registered with its
\* player.
C19_MalformedAnswered ==
  [][\A s \in SocketIds, data \in Malformed, outcome \in HandleCommandOutcomes :
       HandleMessage(s, data, outcome) =>
         /\ \E m \in last'.sent : m.to = s
         /\ sockets'[s].ws = "open"
         /\ s \in players'[sockets[s].player].gameSockets]_vars

\* C20: a command for which handleCommand returns false is reported as
\* unknown to the debug sockets of the player's logger; then, and when
\* handleCommand throws, the handler returns normally and changes no socket
\* and no player.
C20_UnhandledReportedAndIgnored ==
  [][\A s \in SocketIds, outcome \in {"false", "throws"} :
       (last'.op = "message" /\ HandleMessage(s, "{\"name\":\"move\"}", outcome)) =>
         /\ last'.result = IF outcome = "false" THEN "unknown" ELSE "caught"
         /\ outcome = "false" =>
              \A d \in players[sockets[s].player].logger :
                Message(d, "error", "Command is unknown and cannot be handled.")
                  \in last'.sent
         /\ sockets' = sockets
         /\ players' = players]_vars

\* An unknown command has been reported to a debug socket of the player.
C20_Witness ==
  /\ last.op = "message"
  /\ last.result = "unknown"
  /\ \E m \in last.sent :
       /\ m.kind = "error"
       /\ m.text = "Command is unknown and cannot be handled."
       /\ sockets[m.to].ws = "open"

\* C21: createGame sweeps before it checks the capacity: called on a
\* registry that holds MAX_GAMES_COUNT games of which at least one is
\* inactive, it removes the inactive games and creates the new game.
C21_SweepBeforeCapacityCheck ==
  [][(/\ CreateGameStep
      /\ Cardinality(Registered) = MAX_GAMES_COUNT
      /\ \E g \in Registered : ~GameActive(g)) =>
       /\ last'.result = "created"
       /\ \A g \in Registered : ~GameActive(g) => g \notin publicGames' \cup privateGames']_vars

\* C22: no game id is a key of both publicGames and privateGames.
C22_OneMappingPerGame == publicGames \cap privateGames = {}

\* createGame has registered games in both mappings.
C22_Witness ==
  /\ last.op = "createGame"
  /\ publicGames # {}
  /\ privateGames # {}

\* The characters A-Z, a-z and 0-9.
AlphaNumeric ==
  {"A", "B", "C", "D", "E", "F", "G", "H", "I", "J", "K", "L", "M",
   "N", "O", "P", "Q", "R", "S", "T", "U", "V", "W", "X", "Y", "Z",
   "a", "b", "c", "d", "e", "f", "g", "h", "i", "j", "k", "l", "m",
   "n", "o", "p", "q", "r", "s", "t", "u", "v", "w", "x", "y", "z",
   "0", "1", "2", "3", "4", "5", "6", "7", "8", "9"}

\* C23: the string randomSecret(length) returns has exactly length
\* characters, each one of the 62 characters A-Z, a-z, 0-9.
C23_SecretLengthAndAlphabet ==
  /\ Cardinality(AlphaNumeric) = 62
  /\ secretCall.returned =>
       /\ Len(secretCall.str) = secretCall.length
       /\ \A k \in 1..Len(secretCall.str) : secretCall.str[k] \in AlphaNumeric

\* randomSecret(MaxLength) has returned a string that ends with the last
\* character of the alphabet.
C23_Witness ==
  /\ secretCall.returned
  /\ secretCall.length = MaxLength
  /\ secretCall.str[MaxLength] = "9"

\* C24: a heartbeat tick that finds that no pong arrived since the previous
\* ping terminates the websocket, notifies the owner once and sends no ping;
\* a tick that finds the connection alive only clears the flag and pings.
C24_NoPingOnTimeoutTick ==
  [][\A s \in SocketIds :
       HeartbeatTick(s) =>
         IF PongTimedOut(sockets[s])
         THEN /\ sockets'[s].ws # "open"
              /\ sockets'[s].disconnects = sockets[s].disconnects + 1
              /\ ~sockets'[s].pingedClosing
         ELSE /\ sockets'[s].ws = sockets[s].ws
              /\ sockets'[s].disconnects = sockets[s].disconnects
              /\ ~sockets'[s].connectionAlive]_vars

\* C25: no heartbeat tick of a socket runs between the return of an
\* explicit terminate() and the 'close' event of the websocket.
C25_TerminateStopsTimer ==
  [][\A s \in SocketIds : HeartbeatTick(s) => sockets[s].ws # "terminated"]_vars

\* C26: once the owner of a socket has been notified of the disconnect (by
\* the pong timeout or by the 'close' event), the interval callback of the
\* socket never runs again.
C26_NoTickAfterDisconnect ==
  [][\A s \in SocketIds : sockets[s].disconnects >= 1 => ~HeartbeatTick(s)]_vars

\* A socket ended by the pong timeout has been closed and its timer
\* cleared.
C26_Witness ==
  \E s \in SocketIds :
    /\ sockets[s].ws = "closed"
    /\ sockets[s].noPong = 2
    /\ sockets[s].disconnects >= 1
    /\ ~sockets[s].heartbeatInterval

\* C27: terminate() on an open socket leaves the websocket not open and the
\* owner notified; on a socket that is not open it changes nothing.
C27_TerminateNotifiesOwner ==
  [][\A s \in SocketIds :
       SocketTerminate(s) =>
         IF sockets[s].ws = "open"
         THEN /\ sockets'[s].ws # "open"
              /\ sockets'[s].disconnects = sockets[s].disconnects + 1
         ELSE UNCHANGED <<sockets, players, games, serverLogger>>]_vars

\* Player p gains game socket s in this step (Player.addGameSocket).
GameSocketAdded(p, s) ==
  /\ s \notin players[p].gameSockets
  /\ s \in players'[p].gameSockets

\* C28: after addGameSocket has registered a game socket under a player,
\* inactiveSince of the player is 0 and active() is true, also when the
\* player had been inactive before.
C28_AddGameSocketClearsInactiveSince ==
  [][\A p \in PlayerIds : \A s \in 1..MaxSocketIds :
       GameSocketAdded(p, s) =>
         /\ players'[p].inactiveSince = 0
         /\ PlayerActive(p)']_vars

\* C29: addGameSocket sends an event to the game socket it attaches and to
\* no other socket.
C29_ConfirmationToNewSocketOnly ==
  [][\A p \in PlayerIds : \A s \in 1..MaxSocketIds :
       GameSocketAdded(p, s) =>
         /\ \E m \in last'.sent : m.kind = "event" /\ m.to = s
         /\ \A m \in last'.sent : m.kind = "event" => m.to = s]_vars

\* C30: a successful addPlayer registers the new player and sends an event
\* to every game socket of the other players of the game and to every
\* spectator of the game.
C30_AddPlayerBroadcastsJoin ==
  [][\A g \in GameIds :
       (/\ \E secret \in Secrets : AddPlayer(g, secret)
        /\ last'.result = "added") =>
         /\ games'[g].players = games[g].players \cup {Len(players')}
         /\ \A p \in games[g].players : \A s \in players[p].gameSockets :
              \E m \in last'.sent : m.kind = "event" /\ m.to = s
         /\ \A s \in games[g].spectators :
              \E m \in last'.sent : m.kind = "event" /\ m.to = s]_vars

\* C31: after Game.removePlayer(player) the player is not in the players
\* mapping of the game and none of the sockets attached to the player (game
\* sockets and player debug sockets) is left open.
C31_RemovePlayerTerminatesSockets ==
  [][\A g \in GameIds : \A p \in PlayerIds :
       RemovePlayer(g, p) =>
         /\ p \notin games'[g].players
         /\ \A s \in players[p].gameSockets \cup players[p].logger :
              sockets'[s].ws # "open"]_vars

\* C32: Player.terminate() leaves no socket attached to the player open:
\* no game socket and no debug socket that an upgrade to the player's debug
\* route attached.
C32_PlayerTerminateTerminatesAll ==
  [][\A p \in PlayerIds :
       PlayerTerminateCall(p) =>
         \A s \in players[p].gameSockets \cup players[p].logger :
           sockets'[s].ws # "open"]_vars

\* C33: no exception leaves broadcastEvent, sendEvent or send when the
\* websocket of a recipient is not open, whatever the ws library does then:
\* every recipient still gets its one send() call, and an exception thrown
\* by the websocket is written to the console.
C33_SendNeverThrows ==
  [][(last' # last /\ last'.op = "broadcastEvent") =>
       /\ last'.result = "sent"
       /\ \A g \in GameIds : \A omit \in SUBSET PlayerIds : \A notOpen \in WsSendNotOpen :
            BroadcastEventWith(g, omit, notOpen) =>
              \A m \in GameBroadcastEvent(g, omit) :
                /\ m \in last'.sent
                /\ (sockets[m.to].ws # "open" /\ notOpen = "throws") =>
                     \E c \in last'.sent : c.kind = "console.error" /\ c.to = m.to]_vars

\* A broadcast has returned after the send to a recipient whose websocket
\* is not open threw.
C33_Witness ==
  /\ last.op = "broadcastEvent"
  /\ last.result = "sent"
  /\ \E c \in last.sent :
       /\ c.kind = "console.error"
       /\ Message(c.to, "event", "event") \in last.sent

\* C34: a message that arrives on a spectator socket runs no handler, so it
\* never reaches handleCommand of a player, and every broadcastEvent sends
\* the event to every spectator of the game.
C34_SpectatorsOnlyObserve ==
  [][/\ \A s \in SocketIds :
          sockets[s].kind = "spectator" =>
            /\ \A data \in MessageData, outcome \in HandleCommandOutcomes :
                 ~HandleMessage(s, data, outcome)
            /\ MessageWithoutListener(s) =>
                 /\ last'.result \notin {"handled", "unknown", "caught"}
                 /\ players' = players
     /\ (last' # last /\ last'.op = "broadcastEvent") =>
          \A g \in GameIds : \A omit \in SUBSET PlayerIds :
            BroadcastEvent(g, omit) =>
              \A s \in games[g].spectators :
                Message(s, "event", "event") \in last'.sent]_vars

\* A message has arrived on a spectator socket, the only socket there is.
C34_Witness ==
  /\ last = Call("message", "no listener")
  /\ \E s \in SocketIds : sockets[s].ws = "open"
  /\ \A s \in SocketIds : sockets[s].kind = "spectator"

\* The scopes a debug socket refers to.
Scopes(k) ==
  {x \in {"server"} : k.server} \cup {x \in {"game"} : k.game # 0}
    \cup {x \in {"player"} : k.player # 0}

\* C35: every socket is held by at most one owning map (the gameSockets of
\* a player, the spectators of a game, the debug sockets of the logger of
\* the server, a game or a player), and a debug socket belongs to exactly
\* one scope.
C35_AtMostOneOwner ==
  \A s \in SocketIds :
    /\ Cardinality(Owners(s)) <= 1
    /\ sockets[s].kind = "debug" => Cardinality(Scopes(sockets[s])) = 1

\* A game socket and a debug socket are held by different maps.
C35_Witness ==
  \E s \in SocketIds, d \in SocketIds :
    /\ sockets[s].kind = "game"
    /\ sockets[d].kind = "debug"
    /\ Cardinality(Owners(s)) = 1
    /\ Cardinality(Owners(d)) = 1
    /\ Owners(s) # Owners(d)

\* C36: when the heartbeat of one of several game sockets of a player
\* times out, the other game sockets of the player stay registered and
\* untouched, the player stays active and its inactiveSince keeps its
\* value (0).
C36_TimeoutLeavesOtherSockets ==
  [][\A s \in SocketIds :
       (/\ sockets[s].kind = "game"
        /\ PongTimedOut(sockets[s])
        /\ players[sockets[s].player].gameSockets \ {s} # {}
        /\ HeartbeatTick(s)) =>
         LET p == sockets[s].player
             others == players[p].gameSockets \ {s}
         IN /\ players'[p].gameSockets = others
            /\ \A o \in others : sockets'[o] = sockets[o]
            /\ PlayerActive(p)'
            /\ players'[p].inactiveSince = players[p].inactiveSince]_vars

\* One of two game sockets of a player has timed out at a time after 0;
\* the other is open and the player was never inactive.
C36_Witness ==
  \E s \in SocketIds, o \in SocketIds :
    /\ now > 0
    /\ sockets[s].kind = "game"
    /\ sockets[s].noPong = 2
    /\ sockets[s].ws = "closing"
    /\ players[sockets[s].player].gameSockets = {o}
    /\ o # s
    /\ sockets[o].ws = "open"
    /\ players[sockets[s].player].inactiveSince = 0

\* C37: a heartbeat tick of an open socket whose peer has answered the
\* last ping (no tick since the last pong, or no ping sent yet) does not
\* terminate the websocket and does not notify or leave the owner.
C37_AnsweringPeerStaysConnected ==
  [][\A s \in SocketIds :
       (/\ sockets[s].ws = "open"
        /\ sockets[s].noPong = 0
        /\ HeartbeatTick(s)) =>
         /\ sockets'[s].ws = "open"
         /\ sockets'[s].disconnects = sockets[s].disconnects
         /\ Owners(s)' = Owners(s)]_vars

\* A tick has found the socket alive and pinged it: the socket is open,
\* registered and waits for the pong.
C37_Witness ==
  \E s \in SocketIds :
    /\ sockets[s].ws = "open"
    /\ sockets[s].noPong = 1
    /\ ~sockets[s].connectionAlive
    /\ sockets[s].disconnects = 0
    /\ Owners(s) # {}

\* C38: while a player stays without game sockets, the timestamp that the
\* detaching of its last game socket wrote to inactiveSince does not
\* change.
C38_InactiveSinceKept ==
  [][\A p \in PlayerIds :
       (/\ players[p].gameSockets = {}
        /\ players[p].inactiveSince # 0
        /\ players'[p].gameSockets = {}) =>
         players'[p].inactiveSince = players[p].inactiveSince]_vars

\* C39: a socket whose 'close' event has been processed is held by no
\* owning map.
C39_ClosedSocketHasNoOwner ==
  \A s \in SocketIds : sockets[s].ws = "closed" => Owners(s) = {}

\* A socket has been closed while another socket is still held by an owner.
C39_Witness ==
  \E s \in SocketIds, o \in SocketIds :
    /\ sockets[s].ws = "closed"
    /\ sockets[s].disconnects = 1
    /\ sockets[o].ws = "open"
    /\ Owners(o) # {}

\* createGame, called in the current state, would create a game: after the
\* sweep the capacity test fails.
CreateGameSucceeds ==
  ~MaxGamesCountReached(publicGames \ SweepDeletes, privateGames \ SweepDeletes)

\* C40: POST /api/games creates a game exactly when createGame, called in
\* the same state, would create one, and createGame never throws inside
\* the handler.
C40_ApiCreatesIffCreateGameWould ==
  [][\A public \in BOOLEAN, protected \in BOOLEAN, secret \in Secrets :
       ApiCreateGame(public, protected, secret) =>
         /\ last'.result = "201" <=> CreateGameSucceeds
         /\ last'.result # "createGame throws"]_vars
====
